---- MODULE Spec2Model ----
(***************************************************************************)
(* MoneyCast (moneycast.py): budget items, their JSON encoder and decoder, *)
(* and the forecast engine (Phase 1: normalise overdue fixed dates,        *)
(* Phase 2: day-by-day walk).                                              *)
(*                                                                         *)
(* Values.  A Python value that can be a due date is a tagged record:      *)
(*   [tag |-> "none"]                 None / JSON null                     *)
(*   [tag |-> "int", i |-> 15]        int                                  *)
(*   [tag |-> "str", s |-> "Friday"]  str                                  *)
(*   [tag |-> "dow", n |-> 5]         a DayOfWeek member (its value)       *)
(*   [tag |-> "date", year, month, day]   datetime.date                    *)
(*   [tag |-> "dict", d |-> [...]]    dict (JSON object)                   *)
(*   [tag |-> "unset"]                attribute never assigned             *)
(* Amounts are integers (cents): float rounding is outside the model.      *)
(***************************************************************************)
EXTENDS Integers, Sequences, FiniteSets, TLC

VARIABLES pc, budget, ctor_args, json_in, dumped, err,
          balance, start, duration, date_list, daily_balance,
          balance_list, daily_balance_list, item_idx,
          budget0, budget1, fired

vars == <<pc, budget, ctor_args, json_in, dumped, err,
          balance, start, duration, date_list, daily_balance,
          balance_list, daily_balance_list, item_idx,
          budget0, budget1, fired>>

(***************************************************************************)
(* Bounds of the model.                                                    *)
(***************************************************************************)
MaxItems == 2
MaxRecords == 2
MaxWeeks == 3

None == [tag |-> "none"]
Unset == [tag |-> "unset"]
IntV(n) == [tag |-> "int", i |-> n]
StrV(x) == [tag |-> "str", s |-> x]
DowV(k) == [tag |-> "dow", n |-> k]
DateV(y, m, d) == [tag |-> "date", year |-> y, month |-> m, day |-> d]
DictV(r) == [tag |-> "dict", d |-> r]

(***************************************************************************)
(* Enumerations.                                                           *)
(***************************************************************************)
CycleEnum == {"DAILY", "WEEKLY", "BIWEEKLY", "MONTHLY", "BIMONTHLY",
              "QUARTERLY", "YEARLY"}

DueDateType == {"WeekDay", "DateNumber", "Date", "Daily"}

DayOfWeek == <<"Monday", "Tuesday", "Wednesday", "Thursday", "Friday",
               "Saturday", "Sunday">>

DayOfWeekNames == {DayOfWeek[k] : k \in 1..7}

DayOfWeekByName(x) == CHOOSE k \in 1..7 : DayOfWeek[k] = x

(***************************************************************************)
(* Calendar arithmetic (datetime.date, calendar.monthrange).               *)
(***************************************************************************)
IsLeap(y) == (y % 4 = 0) /\ ((y % 100 # 0) \/ (y % 400 = 0))

MonthLength(y, m) ==
    IF m = 2 THEN (IF IsLeap(y) THEN 29 ELSE 28)
    ELSE IF m \in {4, 6, 9, 11} THEN 30 ELSE 31

ValidDate(y, m, d) ==
    /\ y \in 1..9999
    /\ m \in 1..12
    /\ d \in 1..MonthLength(y, m)

RECURSIVE DaysBeforeMonth(_, _)
DaysBeforeMonth(y, m) ==
    IF m = 1 THEN 0 ELSE DaysBeforeMonth(y, m - 1) + MonthLength(y, m - 1)

\* date.toordinal(): 0001-01-01 is day 1
ToOrdinal(dt) ==
    LET y1 == dt.year - 1
    IN  y1 * 365 + (y1 \div 4) - (y1 \div 100) + (y1 \div 400)
          + DaysBeforeMonth(dt.year, dt.month) + dt.day

\* date.isoweekday(): Monday = 1 .. Sunday = 7
IsoWeekday(dt) ==
    LET r == ToOrdinal(dt) % 7 IN IF r = 0 THEN 7 ELSE r

\* date < date
DateLT(a, b) ==
    \/ a.year < b.year
    \/ a.year = b.year /\ a.month < b.month
    \/ a.year = b.year /\ a.month = b.month /\ a.day < b.day

\* a day-of-month past the end of its month carried into the next months
RECURSIVE CarryDays(_, _, _)
CarryDays(y, m, d) ==
    IF d <= MonthLength(y, m) THEN DateV(y, m, d)
    ELSE IF m < 12 THEN CarryDays(y, m + 1, d - MonthLength(y, m))
    ELSE CarryDays(y + 1, 1, d - 31)

\* date + timedelta(days=n), n >= 0
AddDays(dt, n) == CarryDays(dt.year, dt.month, dt.day + n)

add_weeks(sourcedate, weeks) == AddDays(sourcedate, 7 * weeks)

add_months(sourcedate, months) ==
    LET month0 == sourcedate.month - 1 + months
        year   == sourcedate.year + (month0 \div 12)
        month  == (month0 % 12) + 1
        last   == MonthLength(year, month)
        day    == IF sourcedate.day < last THEN sourcedate.day ELSE last
    IN  DateV(year, month, day)


(***************************************************************************)
(* BudgetItem.__init__: the runtime type of due_date selects the kind.     *)
(* No branch handles any other type: due_date_type stays None ("None")     *)
(* and the due_date attribute is never assigned.                           *)
(***************************************************************************)
BudgetItem(name, amount, cycle, due_date) ==
        IF due_date.tag = "int"
          THEN [name |-> name, amount |-> amount, cycle |-> cycle,
                due_date_type |-> "DateNumber", due_date |-> due_date]
        ELSE IF due_date.tag = "dow"
          THEN [name |-> name, amount |-> amount, cycle |-> cycle,
                due_date_type |-> "WeekDay", due_date |-> due_date]
        ELSE IF due_date.tag = "date"
          THEN [name |-> name, amount |-> amount, cycle |-> cycle,
                due_date_type |-> "Date", due_date |-> due_date]
        ELSE IF due_date.tag = "none"
          THEN [name |-> name, amount |-> amount, cycle |-> cycle,
                due_date_type |-> "Daily", due_date |-> due_date]
        ELSE [name |-> name, amount |-> amount, cycle |-> cycle,
              due_date_type |-> "None", due_date |-> Unset]

(***************************************************************************)
(* BudgetItemEncoder.default: dispatches on the runtime type of            *)
(* obj.due_date, not on obj.due_date_type.                                 *)
(***************************************************************************)
Raise(exc, msg, field, where) ==
    [exc |-> exc, msg |-> msg, field |-> field, where |-> where]

NoError == [exc |-> "none", msg |-> "", field |-> "", where |-> ""]

\* mutant: a Daily item is written with a null due_date (line 112 active)
EncoderDefault_DailyNull(obj) ==
    IF obj.due_date.tag = "none"
      THEN [ok |-> TRUE,
            rec |-> [name |-> obj.name, amount |-> obj.amount, cycle |-> obj.cycle,
                     due_date |-> None, due_date_type |-> "Daily"]]
    ELSE IF obj.due_date.tag = "int"
      THEN [ok |-> TRUE,
            rec |-> [name |-> obj.name, amount |-> obj.amount, cycle |-> obj.cycle,
                     due_date |-> obj.due_date, due_date_type |-> "DateNumber"]]
    ELSE IF obj.due_date.tag = "dow"
      THEN [ok |-> TRUE,
            rec |-> [name |-> obj.name, amount |-> obj.amount, cycle |-> obj.cycle,
                     due_date |-> StrV(DayOfWeek[obj.due_date.n]),
                     due_date_type |-> "WeekDay"]]
    ELSE IF obj.due_date.tag = "date"
      THEN [ok |-> TRUE,
            rec |-> [name |-> obj.name, amount |-> obj.amount, cycle |-> obj.cycle,
                     due_date |-> DictV([month |-> obj.due_date.month,
                                         day |-> obj.due_date.day,
                                         year |-> obj.due_date.year]),
                     due_date_type |-> "Date"]]
    ELSE [ok |-> FALSE,
          err |-> Raise("AttributeError", "no attribute", "due_date", "encode")]

EncoderDefault(obj) ==
    IF obj.due_date.tag = "unset"
      THEN [ok |-> FALSE,
            err |-> Raise("AttributeError", "no attribute", "due_date", "encode")]
    ELSE IF obj.due_date.tag = "int"
      THEN [ok |-> TRUE,
            rec |-> [name |-> obj.name, amount |-> obj.amount, cycle |-> obj.cycle,
                     due_date |-> obj.due_date, due_date_type |-> "DateNumber"]]
    ELSE IF obj.due_date.tag = "dow"
      THEN [ok |-> TRUE,
            rec |-> [name |-> obj.name, amount |-> obj.amount, cycle |-> obj.cycle,
                     due_date |-> StrV(DayOfWeek[obj.due_date.n]),
                     due_date_type |-> "WeekDay"]]
    ELSE IF obj.due_date.tag = "date"
      THEN [ok |-> TRUE,
            rec |-> [name |-> obj.name, amount |-> obj.amount, cycle |-> obj.cycle,
                     due_date |-> DictV([month |-> obj.due_date.month,
                                         day |-> obj.due_date.day,
                                         year |-> obj.due_date.year]),
                     due_date_type |-> "Date"]]
    ELSE IF obj.due_date.tag = "none"
      THEN [ok |-> TRUE,
            rec |-> [name |-> obj.name, amount |-> obj.amount, cycle |-> obj.cycle,
                     due_date_type |-> "Daily"]]
    ELSE [ok |-> FALSE,
          err |-> Raise("UnboundLocalError", "due_date_type", "due_date", "encode")]

\* json.dumps(budget, cls=BudgetItemEncoder): every item through default()
RECURSIVE EncodeLoop(_, _, _)
EncodeLoop(items, k, out) ==
    IF k > Len(items) THEN [ok |-> TRUE, recs |-> out]
    ELSE LET r == EncoderDefault(items[k])
         IN  IF r.ok THEN EncodeLoop(items, k + 1, Append(out, r.rec))
             ELSE [ok |-> FALSE, err |-> r.err]

Dumps(items) == EncodeLoop(items, 1, <<>>)

(***************************************************************************)
(* BudgetItemDecoder.decode.                                               *)
(***************************************************************************)
required_main_fields == <<"name", "amount", "cycle", "due_date_type">>

required_date_fields == <<"day", "month", "year">>

\* the first field of the list that the mapping lacks, 0 when it has all
FirstMissing(fields, keys) ==
    IF \A k \in DOMAIN fields : fields[k] \in keys THEN 0
    ELSE CHOOSE k \in DOMAIN fields :
           /\ fields[k] \notin keys
           /\ \A j \in 1..(k - 1) : fields[j] \in keys

\* the body of the for loop for one record: an item or the exception raised
DecodeItem(item) ==
    LET miss == FirstMissing(required_main_fields, DOMAIN item)
    IN
    IF miss # 0
      THEN [ok |-> FALSE,
            err |-> Raise("ValueError", "missing field",
                          required_main_fields[miss], "decode")]
    ELSE IF item.cycle \notin CycleEnum
      THEN [ok |-> FALSE, err |-> Raise("KeyError", "unknown name", "cycle", "decode")]
    ELSE IF item.due_date_type \notin DueDateType
      THEN [ok |-> FALSE,
            err |-> Raise("KeyError", "unknown name", "due_date_type", "decode")]
    ELSE IF item.due_date_type = "Daily"
      THEN [ok |-> TRUE,
            item |-> BudgetItem(item.name, item.amount, item.cycle, None)]
    ELSE IF "due_date" \notin DOMAIN item
      THEN [ok |-> FALSE,
            err |-> Raise("ValueError", "missing field", "due_date", "decode")]
    ELSE IF item.due_date_type = "Date"
      THEN IF item.due_date.tag # "dict"
             THEN [ok |-> FALSE,
                   err |-> Raise("ValueError", "due_date is not of type day month year",
                                 "due_date", "decode")]
           ELSE LET dd    == item.due_date.d
                    dmiss == FirstMissing(required_date_fields, DOMAIN dd)
                IN  IF dmiss # 0
                      THEN [ok |-> FALSE,
                            err |-> Raise("ValueError", "missing field",
                                          required_date_fields[dmiss], "decode")]
                    ELSE IF ~ValidDate(dd.year, dd.month, dd.day)
                      THEN [ok |-> FALSE,
                            err |-> Raise("ValueError", "date out of range",
                                          "due_date", "decode")]
                    ELSE [ok |-> TRUE,
                          item |-> BudgetItem(item.name, item.amount, item.cycle,
                                              DateV(dd.year, dd.month, dd.day))]
    ELSE IF item.due_date_type = "DateNumber"
      THEN [ok |-> TRUE,
            item |-> BudgetItem(item.name, item.amount, item.cycle, item.due_date)]
    ELSE \* WeekDay
      IF item.due_date.tag = "dict"
        THEN [ok |-> FALSE,
              err |-> Raise("TypeError", "unhashable type", "due_date", "decode")]
      ELSE IF item.due_date.tag = "str" /\ item.due_date.s \in DayOfWeekNames
        THEN [ok |-> TRUE,
              item |-> BudgetItem(item.name, item.amount, item.cycle,
                                  DowV(DayOfWeekByName(item.due_date.s)))]
      ELSE [ok |-> FALSE,
            err |-> Raise("ValueError", "due_date is not of type DayOfWeek",
                          "due_date", "decode")]

RECURSIVE DecodeLoop(_, _, _)
DecodeLoop(json_obj, k, out) ==
    IF k > Len(json_obj) THEN [ok |-> TRUE, budget |-> out, err |-> NoError, at |-> 0]
    ELSE LET r == DecodeItem(json_obj[k])
         IN  IF r.ok THEN DecodeLoop(json_obj, k + 1, Append(out, r.item))
             ELSE [ok |-> FALSE, budget |-> out, err |-> r.err, at |-> k]

\* mutant: a failure hands back the items decoded so far
decode_Partial(json_obj) == DecodeLoop(json_obj, 1, <<>>)

\* budget is returned only past the loop; an exception leaves no result
decode(json_obj) ==
    LET r == DecodeLoop(json_obj, 1, <<>>)
    IN  IF r.ok THEN r ELSE [ok |-> FALSE, budget |-> <<>>, err |-> r.err, at |-> r.at]


(***************************************************************************)
(* forecast (lines 183-245; printing and plotting are not modelled).       *)
(***************************************************************************)
\* mutant: the range runs one day too far
DateList_ExtraDay(st, dur) == [x \in 1..(dur * 7 + 1) |-> AddDays(st, x - 1)]

\* date_list = [start + timedelta(days=x) for x in range(0, duration*7)]
DateList(st, dur) == [x \in 1..(dur * 7) |-> AddDays(st, x - 1)]

AdvancingCycles == {"BIWEEKLY", "BIMONTHLY", "QUARTERLY", "YEARLY"}

\* Phase 1: one iteration of the while loop selected by item.cycle
Phase1Step(cycle, due) ==
    IF cycle = "BIWEEKLY" THEN add_weeks(due, 2)
    ELSE IF cycle = "BIMONTHLY" THEN add_months(due, 2)
    ELSE IF cycle = "QUARTERLY" THEN add_months(due, 3)
    ELSE IF cycle = "YEARLY" THEN add_months(due, 12)
    ELSE due

\* mutant: a date on the window start counts as overdue
Phase1Overdue_OrEqual(due, first) == DateLT(due, first) \/ due = first

\* Phase 1: the while loops run under this condition
Phase1Overdue(due, first) == DateLT(due, first)

\* mutant: BIWEEKLY steps one week
Phase2Step_OneWeek(cycle, due) ==
    IF cycle = "BIWEEKLY" THEN add_weeks(due, 1)
    ELSE IF cycle = "BIMONTHLY" THEN add_months(due, 2)
    ELSE IF cycle = "QUARTERLY" THEN add_months(due, 3)
    ELSE IF cycle = "YEARLY" THEN add_months(due, 12)
    ELSE due

\* mutant: the WEEKLY and MONTHLY branches (lines 231-234) are active
Phase2Step_WeeklyMonthly(cycle, due) ==
    IF cycle = "WEEKLY" THEN add_weeks(due, 1)
    ELSE IF cycle = "MONTHLY" THEN add_months(due, 1)
    ELSE IF cycle = "BIWEEKLY" THEN add_weeks(due, 2)
    ELSE IF cycle = "BIMONTHLY" THEN add_months(due, 2)
    ELSE IF cycle = "QUARTERLY" THEN add_months(due, 3)
    ELSE IF cycle = "YEARLY" THEN add_months(due, 12)
    ELSE due

\* Phase 2: the due date of a Date item after it matched
Phase2Step(cycle, due) ==
    IF cycle = "BIWEEKLY" THEN add_weeks(due, 2)
    ELSE IF cycle = "BIMONTHLY" THEN add_months(due, 2)
    ELSE IF cycle = "QUARTERLY" THEN add_months(due, 3)
    ELSE IF cycle = "YEARLY" THEN add_months(due, 12)
    ELSE due

\* Phase 2: does the item match day t
Matches(item, t) ==
    IF item.due_date_type = "WeekDay" THEN item.due_date.n = IsoWeekday(t)
    ELSE IF item.due_date_type = "DateNumber" THEN item.due_date.i = t.day
    ELSE IF item.due_date_type = "Daily" THEN TRUE
    ELSE IF item.due_date_type = "Date" THEN item.due_date = t
    ELSE FALSE

\* trans[name] = amount
DictSet(tr, name, amount) ==
    [n \in (DOMAIN tr) \cup {name} |-> IF n = name THEN amount ELSE tr[n]]

EmptyDict == [n \in {} |-> 0]

\* mutant: the balance follows the transaction map, so a second item of
\* the same name replaces the first one's amount instead of adding to it
ApplyItem_PerName(item, t, acc) ==
    IF Matches(item, t)
      THEN [daily_balance |->
              IF item.name \in DOMAIN acc.trans
                THEN acc.daily_balance - acc.trans[item.name] + item.amount
                ELSE acc.daily_balance + item.amount,
            trans |-> DictSet(acc.trans, item.name, item.amount),
            item  |-> IF item.due_date_type = "Date"
                        THEN [item EXCEPT !.due_date = Phase2Step(item.cycle, @)]
                        ELSE item,
            hit   |-> TRUE]
      ELSE [daily_balance |-> acc.daily_balance, trans |-> acc.trans,
            item |-> item, hit |-> FALSE]

\* Phase 2: the body of the inner loop for one item on day t.
\* acc = [daily_balance, trans]; the result adds the item as left behind
\* and whether it matched.
ApplyItem(item, t, acc) ==
    IF Matches(item, t)
      THEN [daily_balance |-> acc.daily_balance + item.amount,
            trans |-> DictSet(acc.trans, item.name, item.amount),
            item  |-> IF item.due_date_type = "Date"
                        THEN [item EXCEPT !.due_date = Phase2Step(item.cycle, @)]
                        ELSE item,
            hit   |-> TRUE]
      ELSE [daily_balance |-> acc.daily_balance, trans |-> acc.trans,
            item |-> item, hit |-> FALSE]

\* Phase 2: the inner loop over budget for day t, from item k on
RECURSIVE WalkItems(_, _, _, _)
WalkItems(bud, k, t, acc) ==
    IF k > Len(bud)
      THEN [budget |-> bud, daily_balance |-> acc.daily_balance,
            trans |-> acc.trans, hits |-> acc.hits]
    ELSE LET r == ApplyItem(bud[k], t, acc)
         IN  WalkItems([bud EXCEPT ![k] = r.item], k + 1, t,
                       [daily_balance |-> r.daily_balance, trans |-> r.trans,
                        hits |-> IF r.hit THEN acc.hits \cup {k} ELSE acc.hits])

(***************************************************************************)
(* Inputs.                                                                 *)
(***************************************************************************)
Balances == {1000}

Starts == {DateV(2024, 1, 1), DateV(2024, 2, 16)}

Durations == {0, 1, MaxWeeks}

\* arguments of BudgetItem(name, amount, cycle, due_date)
CtorArgs(name, amount, cycle, due_date) ==
    [name |-> name, amount |-> amount, cycle |-> cycle, due_date |-> due_date]

ConstructorInputs ==
    { CtorArgs("food", -5, "DAILY", None),
      CtorArgs("food", 2, "YEARLY", DowV(1)),
      CtorArgs("pay", 30, "BIWEEKLY", DowV(5)),
      CtorArgs("rent", -20, "QUARTERLY", IntV(1)),
      CtorArgs("junk", 1, "DAILY", StrV("Friday")),
      CtorArgs("bill", -50, "BIWEEKLY", DateV(2024, 1, 1)),
      CtorArgs("bill", -50, "BIWEEKLY", DateV(2023, 12, 22)),
      CtorArgs("bill", -50, "BIMONTHLY", DateV(2023, 12, 31)),
      CtorArgs("bill", -50, "QUARTERLY", DateV(2023, 10, 5)),
      CtorArgs("bill", -100, "YEARLY", DateV(2023, 2, 20)),
      CtorArgs("bill", -100, "YEARLY", DateV(2024, 2, 29)),
      CtorArgs("bill", -50, "DAILY", DateV(2024, 1, 10)),
      CtorArgs("bill", -50, "WEEKLY", DateV(2024, 1, 10)),
      CtorArgs("bill", -50, "MONTHLY", DateV(2024, 1, 10)) }


\* parsed JSON objects handed to decode
JsonRecords ==
    { [name |-> "food", amount |-> -5, cycle |-> "DAILY", due_date_type |-> "Daily"],
      [name |-> "pay", amount |-> 30, cycle |-> "WEEKLY", due_date_type |-> "WeekDay",
       due_date |-> StrV("Friday")],
      [name |-> "rent", amount |-> -20, cycle |-> "MONTHLY",
       due_date_type |-> "DateNumber", due_date |-> IntV(1)],
      [name |-> "bill", amount |-> -50, cycle |-> "BIWEEKLY", due_date_type |-> "Date",
       due_date |-> DictV([year |-> 2024, month |-> 1, day |-> 1])],
      [name |-> "bill", amount |-> -50, cycle |-> "BIMONTHLY", due_date_type |-> "Date",
       due_date |-> DictV([year |-> 2023, month |-> 12, day |-> 31])],
      \* a required key is absent
      [name |-> "food", cycle |-> "DAILY", due_date_type |-> "Daily"],
      [name |-> "pay", amount |-> 30, cycle |-> "WEEKLY", due_date_type |-> "WeekDay"],
      [name |-> "rent", amount |-> -20, cycle |-> "FORTNIGHTLY",
       due_date_type |-> "DateNumber"],
      \* unknown enumeration names
      [name |-> "food", amount |-> -5, cycle |-> "FORTNIGHTLY",
       due_date_type |-> "Daily"],
      [name |-> "food", amount |-> -5, cycle |-> "DAILY", due_date_type |-> "Hourly"],
      \* payloads that do not have the shape of the declared type
      [name |-> "rent", amount |-> -20, cycle |-> "MONTHLY",
       due_date_type |-> "DateNumber", due_date |-> None],
      [name |-> "rent", amount |-> -20, cycle |-> "MONTHLY",
       due_date_type |-> "DateNumber", due_date |-> StrV("first")],
      [name |-> "food", amount |-> -5, cycle |-> "DAILY", due_date_type |-> "Daily",
       due_date |-> IntV(3)],
      [name |-> "pay", amount |-> 30, cycle |-> "WEEKLY", due_date_type |-> "WeekDay",
       due_date |-> StrV("Funday")],
      [name |-> "bill", amount |-> -50, cycle |-> "YEARLY", due_date_type |-> "Date",
       due_date |-> StrV("2024-01-01")],
      [name |-> "bill", amount |-> -50, cycle |-> "YEARLY", due_date_type |-> "Date",
       due_date |-> DictV([year |-> 2024, month |-> 1])],
      [name |-> "bill", amount |-> -50, cycle |-> "YEARLY", due_date_type |-> "Date",
       due_date |-> DictV([year |-> 2023, month |-> 2, day |-> 30])] }

JsonLists == UNION { [1..n -> JsonRecords] : n \in 0..MaxRecords }

(***************************************************************************)
(* The program: main builds a budget (run_example, or json.load with the   *)
(* decoder), may dump it (json.dumps with the encoder), and forecasts.     *)
(***************************************************************************)
Init ==
    /\ pc = "main"
    /\ budget = <<>>
    /\ ctor_args = <<>>
    /\ json_in = [loaded |-> FALSE, recs |-> <<>>]
    /\ dumped = <<>>
    /\ err = NoError
    /\ balance = 0
    /\ start = DateV(1, 1, 1)
    /\ duration = 0
    /\ date_list = <<>>
    /\ daily_balance = 0
    /\ balance_list = <<>>
    /\ daily_balance_list = <<>>
    /\ item_idx = 0
    /\ budget0 = <<>>
    /\ budget1 = <<>>
    /\ fired = {}

forecast_vars == <<balance, start, duration, date_list, daily_balance,
                   balance_list, daily_balance_list, item_idx,
                   budget0, budget1, fired>>

\* budget.append(BudgetItem(...)) in run_example
Construct ==
    /\ pc \in {"main", "build"}
    /\ Len(budget) < MaxItems
    /\ \E a \in ConstructorInputs :
         /\ budget' = Append(budget, BudgetItem(a.name, a.amount, a.cycle, a.due_date))
         /\ ctor_args' = Append(ctor_args, a.due_date)
    /\ pc' = "build"
    /\ UNCHANGED <<json_in, dumped, err, forecast_vars>>

\* data = json.load(read_file, cls=BudgetItemDecoder)
Decode ==
    /\ pc = "main"
    /\ \E recs \in JsonLists :
         LET r == decode(recs)
         IN  /\ json_in' = [loaded |-> TRUE, recs |-> recs]
             /\ budget' = r.budget
             /\ err' = r.err
             /\ pc' = IF r.ok THEN "loaded" ELSE "raised"
    /\ UNCHANGED <<ctor_args, dumped, forecast_vars>>

\* j_str = json.dumps(budget, cls=BudgetItemEncoder)
Dump ==
    /\ pc \in {"build", "loaded"}
    /\ LET r == Dumps(budget)
       IN  IF r.ok
             THEN /\ dumped' = r.recs
                  /\ pc' = "dumped"
                  /\ err' = err
             ELSE /\ dumped' = dumped
                  /\ pc' = "raised"
                  /\ err' = r.err
    /\ UNCHANGED <<budget, ctor_args, json_in, forecast_vars>>

\* forecast(balance, start, duration, budget), lines 184-188
ForecastCall ==
    /\ pc \in {"main", "build", "loaded"}
    /\ \E b \in Balances, st \in Starts, dur \in Durations :
         /\ balance' = b
         /\ start' = st
         /\ duration' = dur
         /\ date_list' = DateList(st, dur)
         /\ daily_balance' = b
    /\ balance_list' = <<>>
    /\ daily_balance_list' = <<>>
    /\ item_idx' = 1
    /\ budget0' = budget
    /\ pc' = "phase1"
    /\ UNCHANGED <<budget, ctor_args, json_in, dumped, err, budget1, fired>>

\* Phase 1, a Date item while the window is empty: date_list[0] raises
Phase1IndexError ==
    /\ pc = "phase1"
    /\ item_idx <= Len(budget)
    /\ budget[item_idx].due_date_type = "Date"
    /\ date_list = <<>>
    /\ pc' = "raised"
    /\ err' = Raise("IndexError", "list index out of range", "date_list", "forecast")
    /\ UNCHANGED <<budget, ctor_args, json_in, dumped, forecast_vars>>

\* Phase 1, one iteration of a while loop
Phase1Advance ==
    /\ pc = "phase1"
    /\ item_idx <= Len(budget)
    /\ budget[item_idx].due_date_type = "Date"
    /\ date_list # <<>>
    /\ Phase1Overdue(budget[item_idx].due_date, date_list[1])
    /\ budget[item_idx].cycle \in AdvancingCycles
    /\ budget' = [budget EXCEPT
                    ![item_idx].due_date = Phase1Step(budget[item_idx].cycle, @)]
    /\ UNCHANGED <<pc, ctor_args, json_in, dumped, err, forecast_vars>>

\* Phase 1, nothing (more) to do for this item: on to the next
Phase1Next ==
    /\ pc = "phase1"
    /\ item_idx <= Len(budget)
    /\ LET item == budget[item_idx]
       IN  IF item.due_date_type # "Date" THEN TRUE
           ELSE /\ date_list # <<>>
                /\ (~Phase1Overdue(item.due_date, date_list[1])
                      \/ item.cycle \notin AdvancingCycles)
    /\ item_idx' = item_idx + 1
    /\ UNCHANGED <<pc, budget, ctor_args, json_in, dumped, err,
                   balance, start, duration, date_list, daily_balance,
                   balance_list, daily_balance_list, budget0, budget1, fired>>

\* Phase 1 is over
Phase1Done ==
    /\ pc = "phase1"
    /\ item_idx > Len(budget)
    /\ pc' = "walk"
    /\ budget1' = budget
    /\ UNCHANGED <<budget, ctor_args, json_in, dumped, err,
                   balance, start, duration, date_list, daily_balance,
                   balance_list, daily_balance_list, item_idx, budget0, fired>>

\* Phase 2, one day t of date_list: lines 214-245
WalkDay ==
    /\ pc = "walk"
    /\ Len(balance_list) < Len(date_list)
    /\ LET n == Len(balance_list) + 1
           t == date_list[n]
           r == WalkItems(budget, 1, t,
                          [daily_balance |-> daily_balance, trans |-> EmptyDict,
                           hits |-> {}])
       IN  /\ budget' = r.budget
           /\ daily_balance' = r.daily_balance
           /\ balance_list' = Append(balance_list, [date |-> t, trans |-> r.trans])
           /\ daily_balance_list' = Append(daily_balance_list, r.daily_balance)
           /\ fired' = fired \cup {<<k, n>> : k \in r.hits}
    /\ UNCHANGED <<pc, ctor_args, json_in, dumped, err,
                   balance, start, duration, date_list, item_idx, budget0, budget1>>

\* Phase 2 is over
WalkDone ==
    /\ pc = "walk"
    /\ Len(balance_list) = Len(date_list)
    /\ pc' = "done"
    /\ UNCHANGED <<budget, ctor_args, json_in, dumped, err, forecast_vars>>

Next ==
    \/ Construct
    \/ Decode
    \/ Dump
    \/ ForecastCall
    \/ Phase1IndexError
    \/ Phase1Advance
    \/ Phase1Next
    \/ Phase1Done
    \/ WalkDay
    \/ WalkDone

Spec == Init /\ [][Next]_vars


\* the program keeps running: a started forecast is never suspended
FairSpec == Spec /\ WF_vars(Phase1IndexError \/ Phase1Advance \/ Phase1Next
                              \/ Phase1Done)

(***************************************************************************)
(* Properties.                                                             *)
(***************************************************************************)
InForecast ==
    \/ pc \in {"phase1", "walk", "done"}
    \/ pc = "raised" /\ err.where = "forecast"

Walked == pc \in {"walk", "done"}

IsPrefix(s, t) == Len(s) <= Len(t) /\ \A k \in DOMAIN s : s[k] = t[k]

\* the days on which item k matched
FiredDays(k) == {n \in DOMAIN balance_list : <<k, n>> \in fired}

\* the items that matched on day n
FiredItems(n) == {k \in DOMAIN budget : <<k, n>> \in fired}

RECURSIVE SumSeq(_, _)
SumSeq(f, k) == IF k = 0 THEN 0 ELSE f[k] + SumSeq(f, k - 1)

\* C1: a forecast over d weeks from start has a window of exactly 7*d days,
\* start, start+1, ..., start+7*d-1; the timeline is a prefix of that window
\* in order, one entry per day, complete when the walk ends; the window does
\* not change while the forecast runs and entries are only ever appended.
C1_WindowState ==
    InForecast =>
      /\ Len(date_list) = 7 * duration
      /\ \A k \in DOMAIN date_list :
           /\ ValidDate(date_list[k].year, date_list[k].month, date_list[k].day)
           /\ ToOrdinal(date_list[k]) = ToOrdinal(start) + k - 1
      /\ Len(balance_list) <= Len(date_list)
      /\ Len(daily_balance_list) = Len(balance_list)
      /\ \A k \in DOMAIN balance_list : balance_list[k].date = date_list[k]
      /\ (pc = "done" => Len(balance_list) = 7 * duration)

C1_WindowStep ==
    InForecast =>
      /\ date_list' = date_list
      /\ start' = start
      /\ duration' = duration
      /\ IsPrefix(balance_list, balance_list')
      /\ IsPrefix(daily_balance_list, daily_balance_list')
      /\ Len(balance_list') <= Len(balance_list) + 1

C1_Timeline == [](C1_WindowState) /\ [][C1_WindowStep]_vars

C1_Witness ==
    /\ pc = "done"
    /\ duration = 3
    /\ Len(balance_list) = 21
    /\ balance_list[21].date = DateV(2024, 3, 7)
    /\ fired # {}

\* the match rules of the kinds that carry no state, stated from the day alone
StatelessFires(item, t) ==
    \/ item.due_date_type = "Daily"
    \/ item.due_date_type = "WeekDay" /\ (ToOrdinal(t) - item.due_date.n) % 7 = 0
    \/ item.due_date_type = "DateNumber" /\ t.day = item.due_date.i

\* C2: the balance recorded for day n is the starting balance plus the
\* amounts of all (item, day) matches up to n, each matching item counted
\* on its own even when names coincide; the transaction map of day n has
\* the names that matched on n, each with the amount of the last matching
\* item of that name in list order.  WeekDay, DateNumber and Daily items
\* match exactly on the days their rule names.
C2_Balance ==
    Walked =>
      \A n \in DOMAIN balance_list :
        LET tr   == balance_list[n].trans
            upto == [k \in DOMAIN budget |->
                       budget[k].amount
                         * Cardinality({m \in 1..n : <<k, m>> \in fired})]
        IN  /\ daily_balance_list[n] = balance + SumSeq(upto, Len(budget))
            /\ DOMAIN tr = {budget[k].name : k \in FiredItems(n)}
            /\ \A k \in FiredItems(n) :
                 (\A j \in FiredItems(n) : budget[j].name = budget[k].name => j <= k)
                   => tr[budget[k].name] = budget[k].amount
            /\ \A k \in DOMAIN budget :
                 budget[k].due_date_type \in {"Daily", "WeekDay", "DateNumber"}
                   => (k \in FiredItems(n) <=> StatelessFires(budget[k], date_list[n]))

C2_Witness ==
    /\ pc = "done"
    /\ \E n \in DOMAIN balance_list :
         \E j \in FiredItems(n), k \in FiredItems(n) :
           /\ j < k
           /\ budget[j].name = budget[k].name
           /\ budget[j].amount # budget[k].amount

\* one step of a cycle's series, as the cycles are defined
SeriesStep(cycle, d) ==
    CASE cycle = "BIWEEKLY"  -> AddDays(d, 14)
      [] cycle = "BIMONTHLY" -> add_months(d, 2)
      [] cycle = "QUARTERLY" -> add_months(d, 3)
      [] cycle = "YEARLY"    -> add_months(d, 12)

\* is t one of d, step(d), step(step(d)), ...
RECURSIVE InSeries(_, _, _)
InSeries(cycle, d, t) ==
    IF d = t THEN TRUE
    ELSE IF DateLT(t, d) THEN FALSE
    ELSE InSeries(cycle, SeriesStep(cycle, d), t)

\* the first of d, step(d), ... that is not before first
RECURSIVE FirstOnOrAfter(_, _, _)
FirstOnOrAfter(cycle, d, first) ==
    IF ~DateLT(d, first) THEN d
    ELSE FirstOnOrAfter(cycle, SeriesStep(cycle, d), first)

IsAdvancingDate(item) ==
    item.due_date_type = "Date" /\ item.cycle \in AdvancingCycles

BiweeklyScenario ==
    /\ balance = 1000
    /\ duration = 3
    /\ Len(budget0) = 1
    /\ budget0[1].due_date_type = "Date"
    /\ budget0[1].cycle = "BIWEEKLY"
    /\ budget0[1].amount = -50
    /\ budget0[1].due_date = start

\* C3: a Date item with an advancing cycle fires on a day of the window
\* exactly when the day is in the series that starts at its due date after
\* Phase 1; after it fired on a day its due date is later than that day.
\* With balance 1000 and one BIWEEKLY item of -50 due on the window start,
\* three weeks give 950 from day 0 and 900 from day 14, fired on those two
\* days only.
C3_DateSeries ==
    Walked =>
      /\ \A k \in DOMAIN budget :
           IsAdvancingDate(budget[k]) =>
             \A n \in DOMAIN balance_list :
               /\ (<<k, n>> \in fired
                     <=> InSeries(budget[k].cycle, budget1[k].due_date, date_list[n]))
               /\ (<<k, n>> \in fired => DateLT(date_list[n], budget[k].due_date))
      /\ (BiweeklyScenario =>
            /\ \A n \in DOMAIN daily_balance_list :
                 daily_balance_list[n] = IF n <= 14 THEN 950 ELSE 900
            /\ (pc = "done" => fired = {<<1, 1>>, <<1, 15>>}))

C3_Witness ==
    /\ pc = "done"
    /\ BiweeklyScenario
    /\ fired = {<<1, 1>>, <<1, 15>>}
    /\ daily_balance_list[21] = 900


\* C4: Phase 1 leaves every Date item with an advancing cycle that was due
\* before the window start on the first date of its step series (2 weeks,
\* 2, 3, 12 months) that is on or after the start, and leaves a Date item
\* due on or after the start as it was; every iteration of the advance loop
\* moves the due date strictly forward and runs only while it is before the
\* start, and Phase 1 ends.
C4_Phase1State ==
    Walked =>
      \A k \in DOMAIN budget0 :
        budget0[k].due_date_type = "Date" =>
          IF DateLT(budget0[k].due_date, start)
            THEN budget0[k].cycle \in AdvancingCycles =>
                   budget1[k] = [budget0[k] EXCEPT !.due_date =
                       FirstOnOrAfter(budget0[k].cycle, budget0[k].due_date, start)]
            ELSE budget1[k] = budget0[k]

C4_Phase1Step ==
    (pc = "phase1" /\ budget' # budget) =>
      /\ item_idx \in DOMAIN budget
      /\ DateLT(budget[item_idx].due_date, start)
      /\ DateLT(budget[item_idx].due_date, budget'[item_idx].due_date)
      /\ \A k \in DOMAIN budget : k # item_idx => budget'[k] = budget[k]

C4_Phase1 ==
    /\ [](C4_Phase1State)
    /\ [][C4_Phase1Step]_vars
    /\ ((pc = "phase1") ~> (pc # "phase1"))

C4_Witness ==
    /\ pc = "walk"
    /\ start = DateV(2024, 2, 16)
    /\ \E k \in DOMAIN budget0 :
         /\ budget0[k].due_date = DateV(2023, 12, 31)
         /\ budget0[k].cycle = "BIMONTHLY"
         /\ budget1[k].due_date = DateV(2024, 2, 29)
    /\ \E k \in DOMAIN budget0 :
         /\ budget0[k].due_date = DateV(2024, 2, 29)
         /\ budget1[k].due_date = DateV(2024, 2, 29)

\* C5 (as claimed): a due_date of any type other than int, DayOfWeek, date
\* or None makes the constructor fail with InvalidDueDate and yields no
\* item; the four accepted types give DateNumber, WeekDay, Date and Daily.
AcceptedKind(v) ==
    CASE v.tag = "int"  -> "DateNumber"
      [] v.tag = "dow"  -> "WeekDay"
      [] v.tag = "date" -> "Date"
      [] v.tag = "none" -> "Daily"
      [] OTHER          -> "rejected"

C5_ConstructorRejects ==
    \A k \in DOMAIN ctor_args :
      IF AcceptedKind(ctor_args[k]) = "rejected"
        THEN /\ k \notin DOMAIN budget
             /\ pc = "raised"
             /\ err.exc = "InvalidDueDate"
        ELSE /\ k \in DOMAIN budget
             /\ budget[k].due_date_type = AcceptedKind(ctor_args[k])

\* what the records of a JSON list lack
LacksMainField(r) ==
    \E f \in {"name", "amount", "cycle", "due_date_type"} : f \notin DOMAIN r

LacksDueDate(r) ==
    /\ ~LacksMainField(r)
    /\ r.due_date_type \in DueDateType \ {"Daily"}
    /\ "due_date" \notin DOMAIN r

DecodeFailed == pc = "raised" /\ err.where = "decode"

IsMissingField(e) == e.exc = "ValueError" /\ e.msg = "missing field"

\* C6 (as claimed): when a record lacks name, amount, cycle or
\* due_date_type, or lacks due_date while its due_date_type is WeekDay,
\* DateNumber or Date, and the records before it are valid, decode fails with a MissingField
\* error naming a key the record lacks and returns no items; decode returns
\* a list only when every record decodes, one item per record in order.
C6_AllOrNothing ==
    json_in.loaded =>
      LET recs == json_in.recs
      IN  /\ \A k \in DOMAIN recs :
               ( /\ LacksMainField(recs[k]) \/ LacksDueDate(recs[k])
                 /\ \A j \in 1..(k - 1) : DecodeItem(recs[j]).ok )
                 => /\ DecodeFailed
                    /\ IsMissingField(err)
                    /\ err.field \notin DOMAIN recs[k]
                    /\ budget = <<>>
          /\ pc = "loaded" =>
               /\ \A k \in DOMAIN recs : DecodeItem(recs[k]).ok
               /\ Len(budget) = Len(recs)
               /\ \A k \in DOMAIN recs : budget[k].name = recs[k].name

\* the first record of the list that does not decode, 0 when all do
FirstFailing(recs) ==
    IF \A k \in DOMAIN recs : DecodeItem(recs[k]).ok THEN 0
    ELSE CHOOSE k \in DOMAIN recs :
           /\ ~DecodeItem(recs[k]).ok
           /\ \A j \in 1..(k - 1) : DecodeItem(recs[j]).ok

\* C6 (amended): decode returns a list only when every record decodes, one
\* item per record in order; otherwise it fails with the error of the first
\* record that does not decode and returns no items.  That error is a
\* MissingField naming a key the record lacks when the record lacks one of
\* name, amount, cycle, due_date_type, or when its cycle is a known name,
\* its due_date_type is WeekDay, DateNumber or Date and due_date is absent;
\* a record without due_date whose cycle name is unknown fails on the
\* unknown name instead.
C6_AllOrNothingAmended ==
    json_in.loaded =>
      LET recs == json_in.recs
          ff   == FirstFailing(recs)
      IN  /\ ff # 0 =>
               /\ DecodeFailed
               /\ budget = <<>>
               /\ err = DecodeItem(recs[ff]).err
               /\ LacksMainField(recs[ff]) =>
                    IsMissingField(err) /\ err.field \notin DOMAIN recs[ff]
               /\ LacksDueDate(recs[ff]) =>
                    IF recs[ff].cycle \in CycleEnum
                      THEN IsMissingField(err) /\ err.field = "due_date"
                      ELSE err.exc = "KeyError"
          /\ ff = 0 => ~DecodeFailed
          /\ pc = "loaded" =>
               /\ ff = 0
               /\ Len(budget) = Len(recs)
               /\ \A k \in DOMAIN recs :
                    /\ budget[k].name = recs[k].name
                    /\ budget[k].amount = recs[k].amount
                    /\ budget[k].cycle = recs[k].cycle

C6_Witness ==
    /\ DecodeFailed
    /\ Len(json_in.recs) = 2
    /\ DecodeItem(json_in.recs[1]).ok
    /\ "amount" \notin DOMAIN json_in.recs[2]
    /\ IsMissingField(err)
    /\ err.field = "amount"
    /\ budget = <<>>

\* the input record schema
ValidRecord(r) ==
    /\ {"name", "amount", "cycle", "due_date_type"} \subseteq DOMAIN r
    /\ r.cycle \in CycleEnum
    /\ r.due_date_type \in DueDateType
    /\ IF r.due_date_type = "Daily"
         THEN DOMAIN r = {"name", "amount", "cycle", "due_date_type"}
         ELSE /\ DOMAIN r = {"name", "amount", "cycle", "due_date_type", "due_date"}
              /\ CASE r.due_date_type = "DateNumber" -> r.due_date.tag = "int"
                   [] r.due_date_type = "WeekDay" ->
                        r.due_date.tag = "str" /\ r.due_date.s \in DayOfWeekNames
                   [] r.due_date_type = "Date" ->
                        /\ r.due_date.tag = "dict"
                        /\ DOMAIN r.due_date.d = {"year", "month", "day"}
                        /\ ValidDate(r.due_date.d.year, r.due_date.d.month,
                                     r.due_date.d.day)

\* C7: decoding a list of valid records and encoding the items gives back
\* the records, field by field: name, amount, cycle name, due_date_type
\* name, and the due_date payload (absent for Daily).
C7_RoundTrip ==
    ( /\ json_in.loaded
      /\ \A k \in DOMAIN json_in.recs : ValidRecord(json_in.recs[k]) )
      => /\ ~DecodeFailed
         /\ ~(pc = "raised" /\ err.where = "encode")
         /\ pc = "dumped" => dumped = json_in.recs

C7_Witness ==
    /\ pc = "dumped"
    /\ json_in.loaded
    /\ Len(json_in.recs) = 2
    /\ \A k \in DOMAIN json_in.recs : ValidRecord(json_in.recs[k])
    /\ json_in.recs[1].due_date_type = "Date"
    /\ json_in.recs[2].due_date_type = "Daily"
    /\ dumped = json_in.recs

\* C8 (as claimed): the forecast engine never reaches an error state.
C8_NoEngineError == ~(pc = "raised" /\ err.where = "forecast")

\* the payload type each kind carries
PayloadTag(kind) ==
    CASE kind = "DateNumber" -> "int"
      [] kind = "WeekDay"    -> "dow"
      [] kind = "Date"       -> "date"
      [] kind = "Daily"      -> "none"
      [] OTHER               -> "unset"

\* C9 (as claimed): every item decode returns has one kind, the kind its
\* record declares, and a payload of that kind's type.
C9_DecodedKind ==
    pc = "loaded" =>
      \A k \in DOMAIN budget :
        /\ budget[k].due_date_type \in DueDateType
        /\ budget[k].due_date_type = json_in.recs[k].due_date_type
        /\ budget[k].due_date.tag = PayloadTag(budget[k].due_date_type)

\* C10: a forecast changes nothing of an item but the due_date of a Date
\* item whose cycle is BIWEEKLY, BIMONTHLY, QUARTERLY or YEARLY; a Date item
\* with cycle DAILY, WEEKLY or MONTHLY fires at most once, and never when
\* its due date precedes the window start.
C10_Frame ==
    InForecast =>
      /\ Len(budget) = Len(budget0)
      /\ \A k \in DOMAIN budget :
           /\ budget[k] = [budget0[k] EXCEPT !.due_date = budget[k].due_date]
           /\ ~IsAdvancingDate(budget0[k]) => budget[k] = budget0[k]
           /\ (budget0[k].due_date_type = "Date" /\ ~IsAdvancingDate(budget0[k])) =>
                /\ Cardinality(FiredDays(k)) <= 1
                /\ DateLT(budget0[k].due_date, start) => FiredDays(k) = {}

C10_Witness ==
    /\ pc = "done"
    /\ \E k \in DOMAIN budget :
         /\ budget0[k].due_date_type = "Date"
         /\ budget0[k].cycle = "WEEKLY"
         /\ Cardinality(FiredDays(k)) = 1
    /\ \E k \in DOMAIN budget : budget[k].due_date # budget0[k].due_date

====
